---- MODULE Spec2Model ----
(***************************************************************************)
(* State-machine model of plane_to_teams: SyncService (sync_service.py),   *)
(* the PlaneClient session (plane_client.py) and the selection transform   *)
(* format_issues (teams_formatter.py).                                     *)
(*                                                                         *)
(* Python's None is the empty tuple and an optional value x is <<x>>.      *)
(* A wall-clock instant is [date, time] with time counted in whole hours;  *)
(* its ISO-8601 text is the tuple <<date, time>> of its fields.            *)
(***************************************************************************)
EXTENDS Integers, Sequences, FiniteSets, TLC

VARIABLES
    notification_hour,  \* SyncService.notification_hour (hour of the day)
    now,                \* the wall clock, datetime.now()
    state,              \* SyncService.state, the in-memory sync record
    disk,               \* the state file: [kind, doc]
    session,            \* PlaneClient.session: "none" or "open"
    started,            \* the scheduler is running (SyncService.start was called)
    cronDue,            \* the daily cron trigger's fire time has been reached
    dateJob,            \* the one-shot 'date' job is registered and has not run
    att,                \* per caller of sync: the coroutine's position and locals
    last,               \* history: the sync that returned last
    sent,               \* history: the notifications the webhook received
    decision,           \* history: what the last call of _should_sync returned
    begun,              \* history: the day and caller of every sync begun
    nDirect,            \* history: number of direct calls of sync
    nWriteErrors,       \* history: number of failed writes of the state file
    fromDefault,        \* history: __init__ found no record and took the default
    nFailed,            \* history: failed syncs in a row since __init__
    fmt,                \* a call of format_issues on its own: the project's
                        \* states, the argument issues, the returned message
    opened,             \* history: the ClientSession objects created and not
                        \* yet closed
    clientCalls,        \* history: the calls made on a PlaneClient on its own
    store               \* a save and a load of the state file on their own:
                        \* the record _save_state wrote, the record a second
                        \* service's _load_state returned

vars == <<notification_hour, now, state, disk, session, started,
          cronDue, dateJob, att, last, sent, decision, begun, nDirect,
          nWriteErrors, fromDefault, nFailed, fmt, opened, clientCalls,
          store>>

-----------------------------------------------------------------------------
(* Bounds of the model *)

HoursPerDay == 3
MaxDay == 2
MaxIssues == 2
MaxDirect == 1
MaxWriteErrors == 1
MaxCalls == 4

Hours == 0 .. (HoursPerDay - 1)
Days == 0 .. MaxDay

-----------------------------------------------------------------------------
(* Values *)

\* SyncService.max_retries, the configured ceiling of error_count
max_retries == 2

None == <<>>
Some(x) == <<x>>

\* datetime.isoformat(): the text of an instant, date field then time field
isoformat(t) == <<t.date, t.time>>

\* datetime.fromisoformat(): parse the text back into an instant
fromisoformat(s) == [date |-> s[1], time |-> s[2]]

\* the callers of SyncService.sync: the cron job 'daily_sync', the one-shot
\* 'date' job, and a direct call sync(force) (tests, manual_sync.py)
Callers == {"daily", "date", "direct"}

\* the messages of the errors get_states raises
StatesErrors == {"Invalid API response format"}

\* the messages of the errors get_issues raises: the tests' ClientError(),
\* whose text is empty, and their ValueError
IssuesErrors == {"", "Invalid data"}

\* the texts of the errors that are aiohttp.ClientError (transport errors);
\* the others are ValueError (data errors)
TransportErrors == {""}

\* the messages of the errors send_message raises (a ClientError without text)
SendErrors == {""}

\* the workflow states of the project (teams_formatter.STATE_NAMES), as the
\* states endpoint returns them, sorted by sequence
PlaneStates ==
    << [id |-> "en_cours", sequence |-> 1, group |-> "started"],
       [id |-> "a_faire",  sequence |-> 2, group |-> "unstarted"],
       [id |-> "backlog",  sequence |-> 3, group |-> "backlog"],
       [id |-> "termine",  sequence |-> 4, group |-> "completed"],
       [id |-> "archive",  sequence |-> 5, group |-> "cancelled"] >>

\* what get_states may return
StatesResults == {<<>>, PlaneStates}

\* the issues the issues endpoint may hold
Issue1 == [id |-> "1", priority |-> "low",    state |-> "a_faire"]
Issue2 == [id |-> "2", priority |-> "urgent", state |-> "en_cours"]
Issue3 == [id |-> "3", priority |-> "urgent", state |-> "archive"]

\* what get_issues may return
IssuesResults ==
    {<<>>, <<Issue3, Issue1, Issue2>>}

-----------------------------------------------------------------------------
(* teams_formatter.py *)

\* STATE_ORDER: the states kept in a notification, with their sort order
STATE_ORDER == [en_cours |-> 0, a_faire |-> 1, backlog |-> 2]

\* the priority rank of the sort key: dict.get(x.priority, 4)
PriorityRank(p) ==
    CASE p = "urgent" -> 0
      [] p = "high"   -> 1
      [] p = "medium" -> 2
      [] p = "low"    -> 3
      [] OTHER        -> 4

\* STATE_ORDER.get(x.state, 99)
StateRank(s) == IF s \in DOMAIN STATE_ORDER THEN STATE_ORDER[s] ELSE 99

\* the sort key of format_issues, compared as Python compares tuples
KeyLess(a, b) ==
    \/ PriorityRank(a.priority) < PriorityRank(b.priority)
    \/ /\ PriorityRank(a.priority) = PriorityRank(b.priority)
       /\ StateRank(a.state) < StateRank(b.state)

\* the number of entries a notification keeps: filtered_issues[:10]
TopN == 10

RECURSIVE FilterSeq(_)
\* the list comprehension: keep the issues whose state is a key of STATE_ORDER
FilterSeq(s) ==
    IF s = <<>> THEN <<>>
    ELSE IF Head(s).state \in DOMAIN STATE_ORDER
         THEN <<Head(s)>> \o FilterSeq(Tail(s))
         ELSE FilterSeq(Tail(s))

RECURSIVE InsertSorted(_, _)
\* insert x after every element whose key is not greater (keeps equal keys in order)
InsertSorted(x, s) ==
    IF s = <<>> THEN <<x>>
    ELSE IF KeyLess(x, Head(s)) THEN <<x>> \o s
         ELSE <<Head(s)>> \o InsertSorted(x, Tail(s))

RECURSIVE SortIssues(_)
\* list.sort(key=...): a stable sort by the key
SortIssues(s) ==
    IF s = <<>> THEN <<>>
    ELSE InsertSorted(s[Len(s)], SortIssues(SubSeq(s, 1, Len(s) - 1)))

\* str.upper() on the priority
Upper(p) ==
    CASE p = "urgent" -> "URGENT"
      [] p = "high"   -> "HIGH"
      [] p = "medium" -> "MEDIUM"
      [] p = "low"    -> "LOW"
      [] p = "none"   -> "NONE"
      [] OTHER        -> p

\* the issues of the notification, cut to TopN before they are sorted
TopIssues_TruncatesFirst(issues) ==
    LET kept == FilterSeq(issues)
    IN SortIssues(SubSeq(kept, 1, IF Len(kept) < TopN THEN Len(kept) ELSE TopN))

\* the issues of the notification: filter, sort, first TopN
TopIssues(issues) ==
    LET sorted == SortIssues(FilterSeq(issues))
    IN SubSeq(sorted, 1, IF Len(sorted) < TopN THEN Len(sorted) ELSE TopN)

\* format_issues(issues): the TeamsMessage
format_issues(issues) ==
    LET top_issues == TopIssues(issues)
    IN [title |-> "Top Priority Plane Issues",
        items |-> [i \in 1 .. Len(top_issues) |->
                     [priority |-> Upper(top_issues[i].priority),
                      state    |-> top_issues[i].state,
                      url      |-> <<"issues", top_issues[i].id>>]]]

\* the number of positional arguments SyncService.sync passes to format_issues
FormatArgs == 2

\* format_issues declared with as many parameters as sync passes arguments
FormatParamsAsCalled == FormatArgs

\* the number of positional parameters format_issues declares
FormatParams == 1

\* Python raises TypeError when a call passes more positional arguments than
\* the function declares
FormatRaises == FormatArgs # FormatParams

FormatTypeError == "format_issues() takes 1 positional argument but 2 were given"

-----------------------------------------------------------------------------
(* sync_service.py: the sync record *)

\* the default record of _load_state
DefaultState ==
    [last_sync        |-> None,
     last_sync_status |-> "success",
     last_issues      |-> <<>>,
     error_count      |-> 0,
     last_error       |-> None]

\* the values of a JSON document: null, a string, a number, an array
JNull == [json |-> "null", v |-> <<>>]
JString(x) == [json |-> "string", v |-> <<x>>]
JNumber(n) == [json |-> "number", v |-> <<n>>]
JArray(a) == [json |-> "array", v |-> a]

\* a json.dump after `value or None`: an empty text is written as null
json_dump_EmptyTextAsNull(s) ==
    [last_sync        |-> IF s.last_sync = None THEN JNull
                          ELSE JString(s.last_sync),
     last_sync_status |-> JString(s.last_sync_status),
     last_issues      |-> JArray([i \in DOMAIN s.last_issues |->
                                    JString(s.last_issues[i])]),
     error_count      |-> JNumber(s.error_count),
     last_error       |-> IF s.last_error \in {None, Some("")} THEN JNull
                          ELSE JString(s.last_error[1])]

\* json.dump of the record: None is written as null, a str as a string, the
\* int as a number, the list of identifiers as an array of strings
json_dump(s) ==
    [last_sync        |-> IF s.last_sync = None THEN JNull
                          ELSE JString(s.last_sync),
     last_sync_status |-> JString(s.last_sync_status),
     last_issues      |-> JArray([i \in DOMAIN s.last_issues |->
                                    JString(s.last_issues[i])]),
     error_count      |-> JNumber(s.error_count),
     last_error       |-> IF s.last_error = None THEN JNull
                          ELSE JString(s.last_error[1])]

\* json.load of a document: null is read as None, a string as a str, a number
\* as an int, an array as a list
json_load(doc) ==
    [last_sync        |-> IF doc.last_sync.json = "null" THEN None
                          ELSE doc.last_sync.v[1],
     last_sync_status |-> doc.last_sync_status.v[1],
     last_issues      |-> [i \in DOMAIN doc.last_issues.v |->
                             doc.last_issues.v[i].v[1]],
     error_count      |-> doc.error_count.v[1],
     last_error       |-> IF doc.last_error.json = "null" THEN None
                          ELSE Some(doc.last_error.v[1])]

\* the state file: absent; holding a JSON document; holding no text or a
\* prefix of a document ("torn"); present and not readable by the process
\* ("unreadable"); or in a directory the process may not search, so that
\* neither stat nor open succeeds ("inaccessible").
\* The field doc is the document when there is one
NoDocument == json_dump(DefaultState)
AbsentFile == [kind |-> "absent", doc |-> NoDocument]
UnreadableFile == [kind |-> "unreadable", doc |-> NoDocument]
InaccessibleFile == [kind |-> "inaccessible", doc |-> NoDocument]
DocumentFile(doc) == [kind |-> "doc", doc |-> doc]

\* the state file after open(state_file, 'w') truncated it and before
\* json.dump has written the whole document: no text, or a prefix of it
TornFile == [kind |-> "torn", doc |-> NoDocument]

\* _load_state: json.load of the file if it exists; the default record if it
\* does not exist, or if open or json.load raises
load_state(d) == IF d.kind = "doc" THEN json_load(d.doc) ELSE DefaultState

\* the constructor is left by the PermissionError of state_file.exists()
PermissionDenied == [raised |-> "PermissionError"]

\* what _load_state does: state_file.exists() is called outside the try
\* statement. On a path whose directory may not be searched, Path.exists()
\* raises PermissionError up to Python 3.11 and returns False from 3.12 on
LoadOutcomes(d) ==
    IF d.kind = "inaccessible"
    THEN {DefaultState, PermissionDenied}
    ELSE {load_state(d)}

\* how a write of the state file ends: the document is written; open raises
\* (no permission, no directory); or open has truncated the file and json.dump
\* or the closing flush raises (no space left)
Written == "written"
WriteFailures == {"open_raises", "dump_raises"}

\* _save_state: open(state_file, 'w') and json.dump of the record; an error
\* is logged and swallowed. An error of open leaves the file as it was, an
\* error after open leaves it truncated
save_state(d, s, write) ==
    CASE write = Written       -> DocumentFile(json_dump(s))
      [] write = "open_raises" -> d
      [] OTHER                 -> TornFile

\* _should_sync that waits for the notification hour before a first sync
should_sync_HourGatesFirst(s, t, hour) ==
    IF s.last_sync = None
    THEN t.time >= hour
    ELSE LET last_sync == fromisoformat(s.last_sync)
         IN \/ last_sync.date < t.date /\ t.time >= hour
            \/ /\ last_sync.date = t.date
               /\ t.time >= hour
               /\ last_sync.time < hour

\* _should_sync without the branch for a sync of an earlier day
should_sync_NoEarlierDay(s, t, hour) ==
    IF s.last_sync = None
    THEN TRUE
    ELSE LET last_sync == fromisoformat(s.last_sync)
         IN /\ last_sync.date = t.date
            /\ t.time >= hour
            /\ last_sync.time < hour

\* _should_sync asking of an earlier day's sync, too, that it was before the hour
should_sync_EarlierDayBeforeHour(s, t, hour) ==
    IF s.last_sync = None
    THEN TRUE
    ELSE LET last_sync == fromisoformat(s.last_sync)
         IN /\ last_sync.date <= t.date
            /\ t.time >= hour
            /\ last_sync.time < hour

\* _should_sync that forgets to look at the time of the last sync
should_sync_IgnoresLastTime(s, t, hour) ==
    IF s.last_sync = None
    THEN TRUE
    ELSE LET last_sync == fromisoformat(s.last_sync)
         IN \/ last_sync.date < t.date /\ t.time >= hour
            \/ /\ last_sync.date = t.date
               /\ t.time >= hour

\* _should_sync
should_sync(s, t, hour) ==
    IF s.last_sync = None
    THEN TRUE
    ELSE LET last_sync == fromisoformat(s.last_sync)
         IN \/ last_sync.date < t.date /\ t.time >= hour
            \/ /\ last_sync.date = t.date
               /\ t.time >= hour
               /\ last_sync.time < hour

\* [issue.id for issue in issues]
IssueIds(issues) == [i \in 1 .. Len(issues) |-> issues[i].id]

\* _update_state that counts every failure, without the ceiling
update_state_NoCeiling(s, success, error, issues, t, maxRetries) ==
    LET s1 == [s EXCEPT !.last_sync = isoformat(t),
                        !.last_sync_status =
                            IF success THEN "success" ELSE "error"]
    IN IF success
       THEN [s1 EXCEPT !.error_count = 0,
                       !.last_error = None,
                       !.last_issues =
                           IF issues # <<>> THEN IssueIds(issues) ELSE @]
       ELSE [s1 EXCEPT !.error_count = @ + 1,
                       !.last_error = Some(error)]

\* _update_state comparing the counter with <= in place of <
update_state_CeilingOffByOne(s, success, error, issues, t, maxRetries) ==
    LET s1 == [s EXCEPT !.last_sync = isoformat(t),
                        !.last_sync_status =
                            IF success THEN "success" ELSE "error"]
    IN IF success
       THEN [s1 EXCEPT !.error_count = 0,
                       !.last_error = None,
                       !.last_issues =
                           IF issues # <<>> THEN IssueIds(issues) ELSE @]
       ELSE [s1 EXCEPT !.error_count = IF @ <= maxRetries THEN @ + 1 ELSE @,
                       !.last_error = Some(error)]

\* an _update_state that stores `error or None`: an error without text
\* leaves last_error null
update_state_EmptyErrorAsNull(s, success, error, issues, t, maxRetries) ==
    LET s1 == [s EXCEPT !.last_sync = isoformat(t),
                        !.last_sync_status =
                            IF success THEN "success" ELSE "error"]
    IN IF success
       THEN [s1 EXCEPT !.error_count = 0,
                       !.last_error = None,
                       !.last_issues =
                           IF issues # <<>> THEN IssueIds(issues) ELSE @]
       ELSE [s1 EXCEPT !.error_count = IF @ < maxRetries THEN @ + 1 ELSE @,
                       !.last_error = IF error = "" THEN None ELSE Some(error)]

\* an _update_state that stamps last_sync on a success only
update_state_FailureKeepsLastSync(s, success, error, issues, t, maxRetries) ==
    IF success
    THEN [s EXCEPT !.last_sync = isoformat(t),
                   !.last_sync_status = "success",
                   !.error_count = 0,
                   !.last_error = None,
                   !.last_issues =
                       IF issues # <<>> THEN IssueIds(issues) ELSE @]
    ELSE [s EXCEPT !.last_sync_status = "error",
                   !.error_count = IF @ < maxRetries THEN @ + 1 ELSE @,
                   !.last_error = Some(error)]

\* _update_state, without its final _save_state
update_state(s, success, error, issues, t, maxRetries) ==
    LET s1 == [s EXCEPT !.last_sync = isoformat(t),
                        !.last_sync_status =
                            IF success THEN "success" ELSE "error"]
    IN IF success
       THEN [s1 EXCEPT !.error_count = 0,
                       !.last_error = None,
                       !.last_issues =
                           IF issues # <<>> THEN IssueIds(issues) ELSE @]
       ELSE [s1 EXCEPT !.error_count = IF @ < maxRetries THEN @ + 1 ELSE @,
                       !.last_error = Some(error)]

-----------------------------------------------------------------------------
(* The collaborators' answers *)

Raise(msg) == [kind |-> "raise", msg |-> msg, value |-> <<>>]
Return(v) == [kind |-> "return", msg |-> "", value |-> v]

\* PlaneClient.get_states: raises, or returns the parsed states
StatesOutcomes ==
    {Raise(m) : m \in StatesErrors} \cup {Return(v) : v \in StatesResults}

\* PlaneClient.get_issues: raises, or returns the parsed issues
IssuesOutcomes ==
    {Raise(m) : m \in IssuesErrors} \cup {Return(v) : v \in IssuesResults}

\* TeamsClient.send_message: raises ClientError, or returns True
SendOutcomes == {Raise(m) : m \in SendErrors} \cup {Return(<<>>)}

\* the answers the awaited call of a suspended sync may complete with
Outcomes(pc) ==
    CASE pc = "get_states"   -> StatesOutcomes
      [] pc = "get_issues"   -> IssuesOutcomes
      [] pc = "send_message" -> SendOutcomes
      [] OTHER               -> {Return(<<>>)}

-----------------------------------------------------------------------------
(* sync_service.py: SyncService.sync, one step per stretch between awaits *)

\* a caller that has never called sync
IdleAttempt ==
    [pc     |-> "idle",     \* the await the coroutine is suspended at
     by     |-> "nobody",   \* history: the caller
     force  |-> FALSE,      \* the parameter force
     issues |-> <<>>,       \* the local issues
     due    |-> FALSE,      \* history: _should_sync() when sync was called
     states |-> None,       \* history: what get_states returned
     fetched |-> None,      \* history: what get_issues returned
     raised |-> None,       \* history: the call that raised
     succeeded |-> FALSE,   \* history: _update_state(True, ...) was reached
     calls  |-> <<>>,       \* history: the collaborator calls made
     ticked |-> FALSE]      \* history: an hour began while sync was running

Running(c) == att[c].pc # "idle"

\* sync returns to its caller: its history becomes that of the last sync
Returned(a) == [a EXCEPT !.pc = "done"]

\* an _ensure_session that creates a ClientSession on every call
EnsureSession_AlwaysNew ==
    /\ session' = "open"
    /\ opened' = opened + 1

\* _ensure_session: a ClientSession is created if the client holds none
EnsureSession ==
    /\ session' = "open"
    /\ opened' = IF session = "none" THEN opened + 1 ELSE opened

\* sync is called: it runs up to the await inside get_states, where
\* _ensure_session has created the session if there was none
Begin(c, force) ==
    /\ ~Running(c)
    /\ att' = [att EXCEPT ![c] =
                 [IdleAttempt EXCEPT
                    !.pc = "get_states",
                    !.by = c,
                    !.force = force,
                    !.due = should_sync(state, now, notification_hour),
                    !.calls = <<"get_states">>]]
    /\ EnsureSession
    /\ begun' = begun \cup {<<now.date, c>>}
    /\ UNCHANGED last

\* the finally clause calls plane_client.close(): with a session it awaits
\* session.close(), without one it returns at once and sync returns
Finally(c, a) ==
    LET b == [a EXCEPT !.calls = Append(@, "close")]
    IN IF session = "open"
       THEN /\ att' = [att EXCEPT ![c] = [b EXCEPT !.pc = "close"]]
            /\ UNCHANGED last
       ELSE /\ att' = [att EXCEPT ![c] = IdleAttempt]
            /\ last' = Returned(b)

\* how a write of the state file may end
WriteOutcomes ==
    IF nWriteErrors < MaxWriteErrors
    THEN {Written} \cup WriteFailures
    ELSE {Written}

\* _update_state(success, error, issues): the record is updated and saved
UpdateState(success, error, issues, write) ==
    LET new == update_state(state, success, error, issues, now, max_retries)
    IN /\ state' = new
       /\ disk' = save_state(disk, new, write)
       /\ nWriteErrors' = IF write = Written THEN nWriteErrors
                          ELSE nWriteErrors + 1
       /\ nFailed' = IF success THEN 0 ELSE nFailed + 1

\* a sync whose except clause names ClientError only: a ValueError leaves
\* sync through the finally clause without being recorded
Fail_OnlyTransportErrors(c, where, msg, write) ==
    IF msg \in TransportErrors
    THEN /\ UpdateState(FALSE, msg, <<>>, write)
         /\ Finally(c, [att[c] EXCEPT
                          !.raised = Some([in |-> where, msg |-> msg])])
         /\ UNCHANGED <<session, opened, sent>>
    ELSE /\ Finally(c, [att[c] EXCEPT
                          !.raised = Some([in |-> where, msg |-> msg])])
         /\ UNCHANGED <<state, disk, session, opened, sent, nWriteErrors, nFailed>>

\* the except clause: _update_state(False, error=str(e)), then the finally
\* clause
Fail(c, where, msg, write) ==
    /\ UpdateState(FALSE, msg, <<>>, write)
    /\ Finally(c, [att[c] EXCEPT !.raised = Some([in |-> where, msg |-> msg])])
    /\ UNCHANGED <<session, opened, sent>>

\* get_states completes, in a sync without the return on an empty list
AfterGetStates_NoEarlyReturn(c, r, write) ==
    IF r.kind = "raise"
    THEN Fail(c, "get_states", r.msg, write)
    ELSE /\ att' = [att EXCEPT ![c] =
                      [@ EXCEPT !.pc = "get_issues",
                                !.states = Some(r.value),
                                !.calls = Append(@, "get_issues")]]
         /\ EnsureSession
         /\ UNCHANGED <<state, disk, last, sent, nWriteErrors, nFailed>>

\* get_states completes, in a sync that closes the client after the try
\* statement, not in a finally clause: the return on an empty list skips it
AfterGetStates_ReturnSkipsClose(c, r, write) ==
    IF r.kind = "raise"
    THEN Fail(c, "get_states", r.msg, write)
    ELSE IF r.value = <<>>
    THEN /\ att' = [att EXCEPT ![c] = IdleAttempt]
         /\ last' = Returned([att[c] EXCEPT !.states = Some(r.value)])
         /\ UNCHANGED <<state, disk, session, opened, sent, nWriteErrors, nFailed>>
    ELSE /\ att' = [att EXCEPT ![c] =
                      [@ EXCEPT !.pc = "get_issues",
                                !.states = Some(r.value),
                                !.calls = Append(@, "get_issues")]]
         /\ EnsureSession
         /\ UNCHANGED <<state, disk, last, sent, nWriteErrors, nFailed>>

\* get_states completes
AfterGetStates(c, r, write) ==
    IF r.kind = "raise"
    THEN Fail(c, "get_states", r.msg, write)
    ELSE IF r.value = <<>>
    THEN \* if not states: return
         /\ Finally(c, [att[c] EXCEPT !.states = Some(r.value)])
         /\ UNCHANGED <<state, disk, session, opened, sent, nWriteErrors, nFailed>>
    ELSE \* get_issues is called and suspends on its request
         /\ att' = [att EXCEPT ![c] =
                      [@ EXCEPT !.pc = "get_issues",
                                !.states = Some(r.value),
                                !.calls = Append(@, "get_issues")]]
         /\ EnsureSession
         /\ UNCHANGED <<state, disk, last, sent, nWriteErrors, nFailed>>

\* get_issues completes, in a sync that swallows an error of the issues fetch
\* and goes on to send a notification without issues
AfterGetIssues_SendsAfterError(c, r, write) ==
    IF r.kind = "raise"
    THEN /\ att' = [att EXCEPT ![c] =
                      [@ EXCEPT !.pc = "send_message",
                                !.raised = Some([in |-> "get_issues",
                                                 msg |-> r.msg]),
                                !.calls = Append(@, "send_message")]]
         /\ UNCHANGED <<state, disk, session, opened, last, sent, nWriteErrors, nFailed>>
    ELSE IF FormatRaises
    THEN /\ UpdateState(FALSE, FormatTypeError, <<>>, write)
         /\ Finally(c, [att[c] EXCEPT
                          !.fetched = Some(r.value),
                          !.raised = Some([in |-> "format_issues",
                                           msg |-> FormatTypeError])])
         /\ UNCHANGED <<session, opened, sent>>
    ELSE /\ att' = [att EXCEPT ![c] =
                      [@ EXCEPT !.pc = "send_message",
                                !.issues = r.value,
                                !.fetched = Some(r.value),
                                !.calls = Append(@, "send_message")]]
         /\ UNCHANGED <<state, disk, session, opened, last, sent, nWriteErrors, nFailed>>

\* get_issues completes; format_issues(issues, states) is evaluated and
\* send_message is called
AfterGetIssues(c, r, write) ==
    IF r.kind = "raise"
    THEN Fail(c, "get_issues", r.msg, write)
    ELSE IF FormatRaises
    THEN /\ UpdateState(FALSE, FormatTypeError, <<>>, write)
         /\ Finally(c, [att[c] EXCEPT
                          !.fetched = Some(r.value),
                          !.raised = Some([in |-> "format_issues",
                                           msg |-> FormatTypeError])])
         /\ UNCHANGED <<session, opened, sent>>
    ELSE /\ att' = [att EXCEPT ![c] =
                      [@ EXCEPT !.pc = "send_message",
                                !.issues = r.value,
                                !.fetched = Some(r.value),
                                !.calls = Append(@, "send_message")]]
         /\ UNCHANGED <<state, disk, session, opened, last, sent, nWriteErrors, nFailed>>

\* send_message completes: on True the webhook has the message, and
\* _update_state(True, issues=issues) runs
AfterSendMessage(c, r, write) ==
    IF r.kind = "raise"
    THEN Fail(c, "send_message", r.msg, write)
    ELSE /\ sent' = Append(sent, [date |-> now.date, by |-> c,
                                  message |-> format_issues(att[c].issues)])
         /\ UpdateState(TRUE, "", att[c].issues, write)
         /\ Finally(c, [att[c] EXCEPT !.succeeded = TRUE])
         /\ UNCHANGED <<session, opened>>

\* session.close() completes: close sets self.session = None and sync returns
AfterClose(c) ==
    /\ session' = "none"
    /\ opened' = IF session = "open" THEN opened - 1 ELSE opened
    /\ att' = [att EXCEPT ![c] = IdleAttempt]
    /\ last' = Returned(att[c])
    /\ UNCHANGED <<state, disk, sent, nWriteErrors, nFailed>>

\* the event loop resumes a suspended sync with the answer of the call it awaits
Resume(c) ==
    /\ Running(c)
    /\ \E r \in Outcomes(att[c].pc), write \in WriteOutcomes :
         CASE att[c].pc = "get_states"   -> AfterGetStates(c, r, write)
           [] att[c].pc = "get_issues"   -> AfterGetIssues(c, r, write)
           [] att[c].pc = "send_message" -> AfterSendMessage(c, r, write)
           [] OTHER                      -> AfterClose(c)
    /\ UNCHANGED <<store, clientCalls, fmt, fromDefault, notification_hour, now, started, cronDue, dateJob, decision,
                   begun, nDirect>>

-----------------------------------------------------------------------------
(* sync_service.py: SyncService.start and the scheduler's jobs *)

\* a start() that adds the 'date' job whatever _should_sync() returns
Start_AlwaysImmediate ==
    /\ ~started
    /\ ~Running("direct")
    /\ started' = TRUE
    /\ decision' = Some(should_sync(state, now, notification_hour))
    /\ dateJob' = TRUE
    /\ UNCHANGED <<store, clientCalls, fmt, fromDefault, notification_hour, now, state, disk, session, opened,
                   cronDue, att, last, sent, begun, nDirect, nWriteErrors, nFailed>>

\* start(): add the cron job 'daily_sync'; add a 'date' job running sync at
\* once if _should_sync(); start the scheduler
Start ==
    /\ ~started
    /\ ~Running("direct")
    /\ started' = TRUE
    /\ decision' = Some(should_sync(state, now, notification_hour))
    /\ dateJob' = decision'[1]
    /\ UNCHANGED <<store, clientCalls, fmt, fromDefault, notification_hour, now, state, disk, session, opened,
                   cronDue, att, last, sent, begun, nDirect, nWriteErrors, nFailed>>

\* a scheduler whose daily job is no longer run once error_count stands at
\* the ceiling
Tick_GivesUpAtCeiling ==
    /\ ~cronDue
    /\ ~dateJob
    /\ \A c \in Callers : Running(c) => ~att[c].ticked
    /\ now.time < HoursPerDay - 1 \/ now.date < MaxDay
    /\ now' = IF now.time < HoursPerDay - 1
              THEN [now EXCEPT !.time = @ + 1]
              ELSE [date |-> now.date + 1, time |-> 0]
    /\ cronDue' = /\ started
                  /\ now'.time = notification_hour
                  /\ state.error_count < max_retries
    /\ att' = [c \in Callers |->
                 IF Running(c) THEN [att[c] EXCEPT !.ticked = TRUE] ELSE att[c]]
    /\ UNCHANGED <<store, clientCalls, fmt, fromDefault, notification_hour, state, disk, session, opened, started, dateJob,
                   last, sent, decision, begun, nDirect, nWriteErrors, nFailed>>

\* the clock reaches the next hour; the cron trigger hour=notification_hour,
\* minute=0 becomes due when that hour begins. Due jobs run before time passes,
\* and a sync, whose requests time out, sees at most one hour begin.
Tick ==
    /\ ~cronDue
    /\ ~dateJob
    /\ \A c \in Callers : Running(c) => ~att[c].ticked
    /\ now.time < HoursPerDay - 1 \/ now.date < MaxDay
    /\ now' = IF now.time < HoursPerDay - 1
              THEN [now EXCEPT !.time = @ + 1]
              ELSE [date |-> now.date + 1, time |-> 0]
    /\ cronDue' = (started /\ now'.time = notification_hour)
    /\ att' = [c \in Callers |->
                 IF Running(c) THEN [att[c] EXCEPT !.ticked = TRUE] ELSE att[c]]
    /\ UNCHANGED <<store, clientCalls, fmt, fromDefault, notification_hour, state, disk, session, opened, started, dateJob,
                   last, sent, decision, begun, nDirect, nWriteErrors, nFailed>>

\* the scheduler runs 'daily_sync': self.sync() with force left at its default;
\* a run is skipped while the job's previous run is still executing
DailyFire ==
    /\ cronDue
    /\ cronDue' = FALSE
    /\ IF Running("daily")
       THEN UNCHANGED <<att, session, opened, last, begun>>
       ELSE Begin("daily", FALSE)
    /\ UNCHANGED <<store, clientCalls, fmt, fromDefault, notification_hour, now, state, disk, started, dateJob, sent,
                   decision, nDirect, nWriteErrors, nFailed>>

\* the scheduler runs the one-shot 'date' job: self.sync()
DateFire ==
    /\ dateJob
    /\ dateJob' = FALSE
    /\ Begin("date", FALSE)
    /\ UNCHANGED <<store, clientCalls, fmt, fromDefault, notification_hour, now, state, disk, started, cronDue, sent,
                   decision, nDirect, nWriteErrors, nFailed>>

\* sync(force) called directly on a service whose scheduler was not started
\* (manual_sync.py, the tests)
DirectSync ==
    /\ ~started
    /\ nDirect < MaxDirect
    /\ nDirect' = nDirect + 1
    /\ \E force \in BOOLEAN : Begin("direct", force)
    /\ UNCHANGED <<store, clientCalls, fmt, fromDefault, notification_hour, now, state, disk, started, cronDue,
                   dateJob, sent, decision, nWriteErrors, nFailed>>

-----------------------------------------------------------------------------
(* The initial states *)

\* the instants up to t, from day 0
InstantsUpTo(t) ==
    {i \in [date : 0 .. t.date, time : Hours] :
        i.date < t.date \/ i.time <= t.time}

\* the records an earlier run of the service can have left in the state file
StoredRecords(t, maxRetries) ==
    {[last_sync |-> isoformat(i), last_sync_status |-> "success",
      last_issues |-> <<"7">>, error_count |-> 0, last_error |-> None]
        : i \in InstantsUpTo(t)}
    \cup
    {[last_sync |-> isoformat(i), last_sync_status |-> "error",
      last_issues |-> <<"7">>, error_count |-> n,
      last_error |-> Some("Invalid API response format")]
        : i \in InstantsUpTo(t), n \in 1 .. maxRetries}

\* format_issues is not called on its own
NoCall == [states |-> <<>>, issues |-> <<>>, message |-> None]

\* no save and no load of the state file on their own
NoStore == [saved |-> None, loaded |-> None]

\* what does not depend on the state file or the clock, after construction
Constructed ==
    /\ session = "none"
    /\ started = FALSE
    /\ cronDue = FALSE
    /\ dateJob = FALSE
    /\ att = [c \in Callers |-> IdleAttempt]
    /\ last = IdleAttempt
    /\ sent = <<>>
    /\ decision = None
    /\ begun = {}
    /\ nDirect = 0
    /\ nWriteErrors = 0
    /\ fromDefault = (state = DefaultState)
    /\ nFailed = 0
    /\ opened = 0
    /\ clientCalls = <<>>
    /\ store = NoStore

\* SyncService.__init__ on day 1 at any hour, with any notification hour, over
\* an absent state file or one an earlier run left on day 0 or day 1
Init ==
    /\ notification_hour \in Hours
    /\ now \in [date : {1}, time : Hours]
    /\ disk \in {AbsentFile}
                \cup {save_state(AbsentFile, d, Written) :
                        d \in StoredRecords(now, max_retries)}
    /\ state = load_state(disk)
    /\ Constructed
    /\ fmt = NoCall

\* the service as __main__ runs it: start(), then the scheduler's jobs
Next ==
    \/ Start
    \/ Tick
    \/ DailyFire
    \/ DateFire
    \/ \E c \in Callers : Resume(c)

Spec == Init /\ [][Next]_vars

\* the started service over time, constructed when day 1 begins over an absent
\* state file or one a run of day 0 left after a success or with error_count
\* at the ceiling, the notification hour being the first or the last hour of
\* the day: the clock advances, the scheduler runs the
\* jobs that are due, and every awaited request completes (with an answer or
\* an error: the HTTP clients' requests time out)
InitLive ==
    /\ notification_hour \in {0, HoursPerDay - 1}
    /\ now = [date |-> 1, time |-> 0]
    /\ disk \in {AbsentFile}
                \cup {save_state(AbsentFile, d, Written) :
                        d \in {r \in StoredRecords([date |-> 0, time |-> 0], max_retries) :
                                 r.error_count \in {0, max_retries}}}
    /\ state = load_state(disk)
    /\ Constructed
    /\ fmt = NoCall

SpecLive ==
    /\ InitLive
    /\ [][Next]_vars
    /\ WF_vars(Tick)
    /\ WF_vars(DailyFire)
    /\ WF_vars(DateFire)
    /\ \A c \in Callers : WF_vars(Resume(c))

\* a service that is not started, its sync called directly
NextDirect ==
    \/ Tick
    \/ DirectSync
    \/ Resume("direct")

SpecDirect == Init /\ [][NextDirect]_vars

-----------------------------------------------------------------------------
(* The process killed and run again: __init__ over the file as it was left *)

\* the resumption of a sync suspended at pc with answer r runs _update_state,
\* and with it _save_state: in the except clause, or after the send
SavesOn(pc, r) ==
    \/ r.kind = "raise"
    \/ pc = "get_issues" /\ FormatRaises
    \/ pc = "send_message"

\* a new process constructs the service over the file as the old process
\* left it: __init__ loads the record; the jobs, the session and the
\* coroutines of the old process are gone
Reconstruct ==
    /\ state' = load_state(disk')
    /\ fromDefault' = (state' = DefaultState)
    /\ session' = "none"
    /\ started' = FALSE
    /\ cronDue' = FALSE
    /\ dateJob' = FALSE
    /\ att' = [c \in Callers |-> IdleAttempt]
    /\ last' = IdleAttempt
    /\ decision' = None
    /\ nFailed' = 0
    /\ opened' = 0
    /\ UNCHANGED <<notification_hour, now, sent, begun, nDirect, nWriteErrors,
                   fmt, clientCalls, store>>

\* the process is killed while no _save_state is writing, and run again
Crash ==
    /\ UNCHANGED disk
    /\ Reconstruct

\* the process is killed inside _save_state of caller c's sync, between the
\* open that truncates the file and the end of json.dump, and run again
CrashInSave(c) ==
    /\ Running(c)
    /\ \E r \in Outcomes(att[c].pc) : SavesOn(att[c].pc, r)
    /\ disk' = TornFile
    /\ Reconstruct

\* the service as __main__ runs it, on a machine where the process can be
\* killed at any point
NextCrash ==
    \/ Start
    \/ Tick
    \/ DailyFire
    \/ DateFire
    \/ \E c \in Callers : Resume(c)
    \/ Crash
    \/ \E c \in Callers : CrashInSave(c)

SpecCrash == Init /\ [][NextCrash]_vars

-----------------------------------------------------------------------------
(* The process stopped by a signal: __main__'s signal_handler *)

\* SIGINT or SIGTERM arrives while the service runs: signal_handler logs and
\* calls sys.exit(0). The SystemExit leaves the event loop; asyncio.run cancels
\* the tasks, so every suspended sync gets CancelledError at its await, which
\* `except Exception` does not catch: no _update_state, only the finally
\* clause's close. main's finally clause calls service.stop(), which shuts
\* the scheduler down with its jobs, and the process exits. It is run again
\* later over the state file as it is.
Signal ==
    /\ started
    /\ UNCHANGED disk
    /\ Reconstruct

\* the service as __main__ runs it, stopped by signals and run again
NextSignal ==
    \/ Start
    \/ Tick
    \/ DailyFire
    \/ DateFire
    \/ \E c \in Callers : Resume(c)
    \/ Signal

SpecSignal == Init /\ [][NextSignal]_vars

-----------------------------------------------------------------------------
(* _should_sync on its own, as test_should_sync calls it: any record, any *)
(* clock, any notification hour                                            *)

InitDue ==
    /\ notification_hour \in Hours
    /\ now \in [date : Days, time : Hours]
    /\ state \in {[DefaultState EXCEPT !.last_sync = t] :
                    t \in {None} \cup {isoformat(i) : i \in [date : Days, time : Hours]}}
    /\ disk = AbsentFile
    /\ Constructed
    /\ fmt = NoCall

\* one call of _should_sync()
ShouldSync ==
    /\ decision = None
    /\ decision' = Some(should_sync(state, now, notification_hour))
    /\ UNCHANGED <<store, clientCalls, fmt, fromDefault, notification_hour, now, state, disk, session, opened, started,
                   cronDue, dateJob, att, last, sent, begun, nDirect,
                   nWriteErrors, nFailed>>

NextDue == ShouldSync

SpecDue == InitDue /\ [][NextDue]_vars

-----------------------------------------------------------------------------
(* format_issues on its own, as test_format_issues calls it: any issues,    *)
(* referencing the states of any of the projects below                      *)

\* the states of the tests' project (the fixture mock_plane_client)
TestStates ==
    << [id |-> "state1", sequence |-> 1, group |-> "started"],
       [id |-> "state2", sequence |-> 2, group |-> "unstarted"],
       [id |-> "state3", sequence |-> 3, group |-> "backlog"] >>

\* the states of the project as PlaneState.from_api_response parses them from
\* a response without the field 'sequence': data.get('sequence', 0)
PlaneStatesNoSequence ==
    [i \in DOMAIN PlaneStates |-> [PlaneStates[i] EXCEPT !.sequence = 0]]

\* the state sets a project may have
StateSets == {PlaneStates, TestStates, PlaneStatesNoSequence}

\* the priorities of an issue
Priorities == {"urgent", "high", "medium", "low", "none"}

\* the states an issue may reference
IssueStates == {"en_cours", "a_faire", "backlog", "termine", "state1"}

\* what distinguishes two issues for format_issues, their identifier aside
IssueKinds == [priority : Priorities, state : IssueStates]

\* a page of issues of low priority in the backlog, fetched first
Page == [i \in 1 .. TopN |-> [priority |-> "low", state |-> "backlog"]]

\* the issues of the given kinds, identified by their position in the fetch
Fetched(kinds) ==
    [i \in 1 .. Len(kinds) |->
        [id |-> i, priority |-> kinds[i].priority, state |-> kinds[i].state]]

\* the lists of issues format_issues is called with: up to MaxIssues issues of
\* any kinds, alone or after a page of low issues
FormatInputs ==
    {Fetched(pre \o ks) :
        pre \in {<<>>, Page},
        ks \in UNION {[1 .. n -> IssueKinds] : n \in 0 .. MaxIssues}}

InitFormat ==
    /\ notification_hour = 0
    /\ now = [date |-> 1, time |-> 0]
    /\ disk = AbsentFile
    /\ state = load_state(disk)
    /\ Constructed
    /\ fmt \in [states : StateSets, issues : FormatInputs, message : {None}]

\* one call of format_issues(issues)
FormatIssues ==
    /\ fmt.message = None
    /\ fmt' = [fmt EXCEPT !.message = Some(format_issues(fmt.issues))]
    /\ UNCHANGED <<notification_hour, now, state, disk, session, opened, started,
                   cronDue, dateJob, att, last, sent, decision, begun, nDirect,
                   nWriteErrors, fromDefault, nFailed, clientCalls, store>>

NextFormat == FormatIssues

SpecFormat == InitFormat /\ [][NextFormat]_vars

-----------------------------------------------------------------------------
(* _save_state and _load_state on their own, as test_save_state and         *)
(* test_load_state_* call them: any record, over any state file             *)

\* the identifiers of the issues a record can list
IssueIdTexts == {"7", "8"}

\* the texts of the errors a record can hold
ErrorTexts == {"", "Invalid data"}

\* the values a sync record can take
Records ==
    [last_sync        : {None} \cup {isoformat(i) : i \in [date : Days, time : Hours]},
     last_sync_status : {"success", "error"},
     last_issues      : UNION {[1 .. n -> IssueIdTexts] : n \in 0 .. MaxIssues},
     error_count      : 0 .. max_retries,
     last_error       : {None} \cup {Some(e) : e \in ErrorTexts}]

\* the state files the service can be constructed over: none, one that cannot
\* be read, one that cannot be reached, one without a whole document, one an
\* earlier run wrote
Files ==
    {AbsentFile, UnreadableFile, InaccessibleFile, TornFile,
     save_state(AbsentFile, [DefaultState EXCEPT !.last_sync = isoformat([date |-> 0, time |-> 0])], Written)}

InitStore ==
    /\ notification_hour = 0
    /\ now = [date |-> 1, time |-> 0]
    /\ disk \in Files
    /\ state \in Records
    /\ Constructed
    /\ fmt = NoCall

\* service._save_state() of a record the test assigned: the record is written,
\* unless the write fails
SaveState ==
    /\ store = NoStore
    /\ \E write \in WriteOutcomes :
         /\ disk.kind = "inaccessible" => write = "open_raises"
         /\ disk' = save_state(disk, state, write)
         /\ nWriteErrors' = IF write = Written THEN nWriteErrors
                            ELSE nWriteErrors + 1
         /\ store' = IF write = Written
                      THEN [store EXCEPT !.saved = Some(state)]
                      ELSE store
    /\ UNCHANGED <<notification_hour, now, state, session, started, cronDue,
                   dateJob, att, last, sent, decision, begun, nDirect,
                   fromDefault, nFailed, fmt, opened, clientCalls>>

\* a second SyncService is constructed over the same path: its _load_state
LoadState ==
    /\ store.loaded = None
    /\ \E r \in LoadOutcomes(disk) : store' = [store EXCEPT !.loaded = Some(r)]
    /\ UNCHANGED <<notification_hour, now, state, disk, session, started,
                   cronDue, dateJob, att, last, sent, decision, begun, nDirect,
                   nWriteErrors, fromDefault, nFailed, fmt, opened, clientCalls>>

NextStore ==
    \/ SaveState
    \/ LoadState

SpecStore == InitStore /\ [][NextStore]_vars

-----------------------------------------------------------------------------
(* The PlaneClient on its own, as test_plane_client calls it: any sequence   *)
(* of fetches and closes, each awaited before the next                       *)

\* the methods of PlaneClient that make a request
Fetches == {"get_states", "get_issues", "get_issue"}

InitClient ==
    /\ notification_hour = 0
    /\ now = [date |-> 1, time |-> 0]
    /\ disk = AbsentFile
    /\ state = load_state(disk)
    /\ Constructed
    /\ fmt = NoCall

\* await client.get_states(), get_issues() or get_issue(id): the method calls
\* _ensure_session before its request, and returns or raises
ClientFetch ==
    /\ Len(clientCalls) < MaxCalls
    /\ \E m \in Fetches : clientCalls' = Append(clientCalls, m)
    /\ EnsureSession
    /\ UNCHANGED <<notification_hour, now, state, disk, started, cronDue,
                   dateJob, att, last, sent, decision, begun, nDirect,
                   nWriteErrors, fromDefault, nFailed, fmt, store>>

\* await client.close(): a held session is closed and self.session is set to
\* None; without a session nothing is done
ClientClose ==
    /\ Len(clientCalls) < MaxCalls
    /\ clientCalls' = Append(clientCalls, "close")
    /\ session' = "none"
    /\ opened' = IF session = "open" THEN opened - 1 ELSE opened
    /\ UNCHANGED <<notification_hour, now, state, disk, started, cronDue,
                   dateJob, att, last, sent, decision, begun, nDirect,
                   nWriteErrors, fromDefault, nFailed, fmt, store>>

NextClient ==
    \/ ClientFetch
    \/ ClientClose

SpecClient == InitClient /\ [][NextClient]_vars

-----------------------------------------------------------------------------
(* Properties *)

Range(s) == {s[i] : i \in DOMAIN s}

Min(a, b) == IF a < b THEN a ELSE b

\* the instant of the record's last_sync (when it is not None)
LastSync == fromisoformat(state.last_sync)

IsDue == should_sync(state, now, notification_hour)

\* the history of caller c's sync after a step: its own while it is suspended,
\* that of the last sync once it has returned
After(c) == IF att'[c].pc = "idle" THEN last' ELSE att'[c]

\* a step of caller c's sync (the call, or a resumption)
SyncStep(c) == att'[c].pc # att[c].pc

\* the step in which caller c's sync leaves its try block
LeavesTry(c) ==
    /\ att[c].pc \in {"get_states", "get_issues", "send_message"}
    /\ After(c).pc \in {"close", "done"}

\* a collaborator call of the sync raised
CollaboratorRaised(a) ==
    /\ a.raised # None
    /\ a.raised[1].in \in {"get_states", "get_issues", "send_message"}

\* both fetches of the sync returned, the states not empty, and no
\* collaborator call raised
AllReturned(a) == a.fetched # None /\ ~CollaboratorRaised(a)

\* the notifications the webhook received on day d
SentOn(d) == {i \in 1 .. Len(sent) : sent[i].date = d}

C2_NotDueIsNoOp ==
    [][\A c \in Callers :
          (SyncStep(c) /\ ~After(c).force /\ ~After(c).due)
          => /\ After(c).calls = <<>>
             /\ state' = state
             /\ disk' = disk
             /\ sent' = sent]_vars

\* C3: with last_sync recorded at or after the notification hour of day D,
\* _should_sync is false for the rest of day D, and true on every later day
\* from the notification hour on, until last_sync is recorded again.
C3_TwoStatesPerDay ==
    (state.last_sync # None /\ LastSync.time >= notification_hour)
    => /\ now.date = LastSync.date => ~IsDue
       /\ (now.date > LastSync.date /\ now.time >= notification_hour) => IsDue

\* C3 witness: a sync recorded last_sync at or after the hour, and the clock
\* has reached the notification hour of a later day.
C3_DueOnLaterDay ==
    /\ last.pc = "done"
    /\ last.raised # None
    /\ state.last_sync # None
    /\ LastSync.time >= notification_hour
    /\ <<LastSync.date, last.by>> \in begun
    /\ now.date > LastSync.date
    /\ now.time >= notification_hour
    /\ IsDue

\* C4: _should_sync returns true whenever last_sync is None, at any date and
\* hour, before the notification hour too.
C4_NullIsDue ==
    (decision # None /\ state.last_sync = None) => decision[1] = TRUE

\* C4 witness: _should_sync was called with last_sync = None before the hour.
C4_NullBeforeHour ==
    /\ decision = Some(TRUE)
    /\ state.last_sync = None
    /\ now.time < notification_hour

\* C5: with last_sync on an earlier date than now, _should_sync is true iff
\* now's hour is at or after the notification hour.
C5_EarlierDay ==
    (decision # None /\ state.last_sync # None /\ LastSync.date < now.date)
    => (decision[1] <=> now.time >= notification_hour)

\* C5 witness: last_sync on an earlier day, itself after the hour, and now at
\* or after the hour: due.
C5_EarlierDayAfterHour ==
    /\ decision = Some(TRUE)
    /\ state.last_sync # None
    /\ LastSync.date < now.date
    /\ LastSync.time > notification_hour
    /\ now.time >= notification_hour

C7_SendReached ==
    \A a \in {last} \cup {att[c] : c \in Callers} :
        (a.pc \in {"close", "done"} /\ AllReturned(a))
        => "send_message" \in Range(a.calls)

\* C8: when a sync whose fetches both returned (states not empty) and none of
\* whose collaborator calls raised leaves its try block, the record has
\* error_count = 0, last_error = None, last_sync_status = "success" and
\* last_sync = now.
C8_SuccessRecord ==
    [][\A c \in Callers :
          (LeavesTry(c) /\ AllReturned(After(c)))
          => /\ state'.error_count = 0
             /\ state'.last_error = None
             /\ state'.last_sync_status = "success"
             /\ state'.last_sync = isoformat(now)]_vars

\* C9: when such a sync leaves its try block, last_issues is the list of the
\* identifiers of the notification's entries (filtered, sorted, first ten),
\* empty when there are none.
C9_LastIssuesArePayload ==
    [][\A c \in Callers :
          (LeavesTry(c) /\ AllReturned(After(c)))
          => state'.last_issues = IssueIds(TopIssues(After(c).fetched[1]))]_vars

\* C10: when the states fetch, the issues fetch or the send raises, the record
\* becomes: status "error", last_error the message, last_sync now, error_count
\* min(previous + 1, max_retries), last_issues as before.
C10_FailureRecord ==
    [][\A c \in Callers :
          (LeavesTry(c) /\ CollaboratorRaised(After(c)))
          => state' = [last_sync        |-> isoformat(now),
                       last_sync_status |-> "error",
                       last_issues      |-> state.last_issues,
                       error_count      |-> Min(state.error_count + 1, max_retries),
                       last_error       |-> Some(After(c).raised[1].msg)]]_vars

\* C10 witness: the issues fetch raised with the counter already at the
\* ceiling; the record keeps the earlier run's issues.
C10_IssuesFetchFailedAtCeiling ==
    /\ last.pc = "done"
    /\ last.raised = Some([in |-> "get_issues", msg |-> "Invalid data"])
    /\ state.last_sync_status = "error"
    /\ state.last_error = Some("Invalid data")
    /\ state.error_count = max_retries
    /\ state.last_issues = <<"7">>
    /\ begun = {<<now.date, "daily">>}

\* C11: in a service constructed over the default record, error_count stays
\* within 0 .. max_retries, and after k failing syncs in a row it is
\* min(k, max_retries).
C11_ErrorCountCeiling ==
    fromDefault
    => /\ 0 <= state.error_count
       /\ state.error_count <= max_retries
       /\ state.error_count = Min(nFailed, max_retries)

\* C11 witness: from the default record, one more sync failed in a row than
\* the ceiling counts, and the counter stands at the ceiling.
C11_OneFailureTooMany ==
    /\ fromDefault
    /\ last.pc = "done"
    /\ last.raised # None
    /\ nFailed = max_retries + 1
    /\ state.error_count = max_retries

\* C12: no step of a sync whose states fetch returned an empty list changes
\* last_sync or sends a notification, and such a sync never calls the issues
\* fetch (nor the send).
C12_EmptyStatesIsNoOp ==
    [][\A c \in Callers :
          (SyncStep(c) /\ After(c).states = Some(<<>>))
          => /\ state'.last_sync = state.last_sync
             /\ sent' = sent
             /\ "get_issues" \notin Range(After(c).calls)
             /\ "send_message" \notin Range(After(c).calls)]_vars

\* C12 witness: the only sync so far got an empty list of states and has
\* returned; the record is the one in the file, with the last_sync of an
\* earlier run.
C12_ReturnedOnEmptyStates ==
    /\ last.pc = "done"
    /\ last.states = Some(<<>>)
    /\ last.calls = <<"get_states", "close">>
    /\ Cardinality(begun) = 1
    /\ nFailed = 0
    /\ disk.kind = "doc"
    /\ state = load_state(disk)
    /\ state.last_sync # None

\* the sync ran _update_state, which ends with _save_state (in the except
\* clause, or after the send)
Saved(a) == a.raised # None \/ a.succeeded

\* C13: a sync that has left its try block has saved the record if it was past
\* the due gate (forced, or due when called), whatever its outcome, the
\* empty-states return included; a sync that was not due and not forced has
\* saved nothing.
C13_SavedIffPastGate ==
    \A a \in {last} \cup {att[c] : c \in Callers} :
        a.pc \in {"close", "done"} => (Saved(a) <=> (a.force \/ a.due))

\* C14: once the file holds a record, it holds a complete record at every
\* later instant, the previous one or the new one, a kill in the middle of a
\* save included; so the record in memory, reloaded after a kill too, never
\* has last_sync = None.
C14_AtomicRewrite ==
    [][disk.kind = "doc"
       => /\ disk'.kind = "doc"
          /\ disk' = disk \/ disk' = save_state(disk, state', Written)
          /\ state'.last_sync # None]_vars

\* C15: the last call of every sync that has returned is plane_client.close(),
\* whichever way it left the try block, and when no sync is running the
\* client has no open session.
C15_ClosedOnReturn ==
    /\ last.pc = "done" => last.calls[Len(last.calls)] = "close"
    /\ (\A c \in Callers : ~Running(c)) => session = "none"

\* C15 witness: a sync whose issues fetch raised has returned after closing
\* the client, and no session is left open.
C15_ClosedAfterIssuesFailure ==
    /\ last.pc = "done"
    /\ last.raised # None
    /\ last.raised[1].in = "get_issues"
    /\ last.calls = <<"get_states", "get_issues", "close">>
    /\ \A c \in Callers : ~Running(c)
    /\ session = "none"

\* the step in which a collaborator call of caller c's sync raises
RaisesIn(c) ==
    /\ att[c].pc \in {"get_states", "get_issues", "send_message"}
    /\ After(c).raised # None
    /\ CollaboratorRaised(After(c))

\* the failure outcome of the error a sync caught: status "error", the
\* error's text, the counter one up unless at the ceiling
FailureOutcome(c) ==
    /\ state'.last_sync_status = "error"
    /\ state'.last_error = Some(After(c).raised[1].msg)
    /\ state'.error_count = Min(state.error_count + 1, max_retries)

\* C16 as stated: when the states fetch, the issues fetch or the send raises,
\* sync goes on through its finally clause to return, the record holds the
\* failure outcome, and the state file holds that record.
C16_ErrorsArePersisted ==
    [][\A c \in Callers :
          RaisesIn(c)
          => /\ After(c).pc \in {"close", "done"}
             /\ FailureOutcome(c)
             /\ disk' = save_state(disk, state', Written)]_vars

\* C16 amended: ... and the state file holds that record unless the write of
\* the file failed, in which case the file is as it was or is left without a
\* whole document (the write error is swallowed as well).
C16_ErrorsAreRecorded ==
    [][\A c \in Callers :
          RaisesIn(c)
          => /\ After(c).pc \in {"close", "done"}
             /\ FailureOutcome(c)
             /\ \/ disk' = save_state(disk, state', Written)
                \/ /\ nWriteErrors' = nWriteErrors + 1
                   /\ disk' \in {disk, TornFile}]_vars

\* C16 witness: the issues fetch raised a ClientError (a transport error) in
\* the only sync so far; sync returned, and the record with the failure
\* outcome is in the file.
C16_TransportErrorPersisted ==
    /\ last.pc = "done"
    /\ last.raised = Some([in |-> "get_issues", msg |-> ""])
    /\ Cardinality(begun) = 1
    /\ state.last_sync_status = "error"
    /\ state.last_error = Some("")
    /\ disk = save_state(disk, state, Written)

\* s is a prefix of t
IsPrefix(s, t) ==
    /\ Len(s) <= Len(t)
    /\ \A i \in 1 .. Len(s) : s[i] = t[i]

\* the calls a sync made to its collaborators, in order (close() set aside)
CollaboratorCalls(a) == SelectSeq(a.calls, LAMBDA x : x # "close")

\* C17: the collaborator calls of every sync, running or returned, are a
\* prefix of get_states, get_issues, send_message; get_issues is called only
\* after get_states returned a list that is not empty; send_message is not
\* called in a sync whose states fetch or issues fetch raised.
C17_CallsInOrder ==
    \A a \in {last} \cup {att[c] : c \in Callers} :
        /\ IsPrefix(CollaboratorCalls(a),
                    <<"get_states", "get_issues", "send_message">>)
        /\ "get_issues" \in Range(a.calls)
              => (a.states # None /\ a.states[1] # <<>>)
        /\ (a.raised # None /\ a.raised[1].in \in {"get_states", "get_issues"})
              => "send_message" \notin Range(a.calls)

\* C17 witness: a sync got the states, called the issues fetch, which raised
\* the ValueError, and returned without calling send_message.
C17_NoSendAfterIssuesError ==
    /\ last.pc = "done"
    /\ last.states = Some(PlaneStates)
    /\ last.raised = Some([in |-> "get_issues", msg |-> "Invalid data"])
    /\ CollaboratorCalls(last) = <<"get_states", "get_issues">>

\* the entries of the message format_issues returned
Items == fmt.message[1].items

\* the fetched issue an entry was made of (its URL ends with the identifier)
EntryIssue(e) == fmt.issues[e.url[2]]

\* the identifiers of the issues in the message
OutIds == {Items[i].url[2] : i \in DOMAIN Items}

\* the project has the state the issue references
Known(x) == \E st \in Range(fmt.states) : st.id = x.state

\* the state the issue references (when the project has it)
StateOf(x) == CHOOSE st \in Range(fmt.states) : st.id = x.state

\* the groups of the states whose issues belong in a notification
ActiveGroups == {"backlog", "unstarted", "started"}

\* the priority rank the selection transform is to sort by
RankOf(x) ==
    CASE x.priority = "urgent" -> 0
      [] x.priority = "high"   -> 1
      [] x.priority = "medium" -> 2
      [] x.priority = "low"    -> 3
      [] OTHER                 -> 4

\* C18: when no more than ten issues are fetched (nothing is cut off), the
\* message holds exactly the issues whose state the project has with a group
\* among backlog, unstarted, started: none of a completed, cancelled or
\* unknown state, and every one of an active state.
C18_KeepsActiveGroups ==
    (fmt.message # None /\ Len(fmt.issues) <= 10)
    => OutIds = {x.id : x \in {y \in Range(fmt.issues) :
                                 Known(y) /\ StateOf(y).group \in ActiveGroups}}

\* C19: consecutive entries of the message (of states the project has) are in
\* the order of the priority rank; with equal rank, in the order of their
\* states' sequence; with both equal, in the order they were fetched.
C19_SortedByRankAndSequence ==
    fmt.message # None
    => \A i \in 1 .. (Len(Items) - 1) :
          LET a == EntryIssue(Items[i])
              b == EntryIssue(Items[i + 1])
          IN (Known(a) /\ Known(b))
             => /\ RankOf(a) <= RankOf(b)
                /\ RankOf(a) = RankOf(b)
                     => StateOf(a).sequence <= StateOf(b).sequence
                /\ (/\ RankOf(a) = RankOf(b)
                    /\ StateOf(a).sequence = StateOf(b).sequence)
                     => a.id < b.id

\* the issues that pass the filter of format_issues
Kept == Range(FilterSeq(fmt.issues))

\* x comes before y in the stable sort of format_issues
Before(x, y) == KeyLess(x, y) \/ (~KeyLess(y, x) /\ x.id < y.id)

\* C20: the message has at most 10 entries; they are the issues passing the
\* filter that have fewer than 10 of them before them in the sorted order,
\* listed in that order (so with more than 10, the first 10 of the sort).
C20_FirstTenOfSorted ==
    fmt.message # None
    => LET kept == Kept
           items == Items
       IN /\ Len(items) <= 10
          /\ {items[i].url[2] : i \in DOMAIN items}
               = {x.id : x \in {y \in kept :
                     Cardinality({z \in kept : Before(z, y)}) < 10}}
          /\ \A i \in 1 .. (Len(items) - 1) :
                Before(EntryIssue(items[i]), EntryIssue(items[i + 1]))

\* C20 witness: more than 10 issues pass the filter, the message has 10
\* entries, and the first is an issue fetched after the first ten.
C20_LateIssueComesFirst ==
    /\ fmt.message # None
    /\ Cardinality(Kept) > 10
    /\ Len(Items) = 10
    /\ Items[1].url[2] > 10

\* C21: a record saved and then loaded from the same path is equal field for
\* field to the record that was saved, whatever the record is: with last_sync
\* and last_error null or not, with or without issues.
C21_SaveLoadRoundTrip ==
    (store.saved # None /\ store.loaded # None)
    => LET r == store.loaded[1]
           w == store.saved[1]
       IN /\ r.last_sync = w.last_sync
          /\ r.last_sync_status = w.last_sync_status
          /\ r.last_issues = w.last_issues
          /\ r.error_count = w.error_count
          /\ r.last_error = w.last_error

\* C21 witness: a record with null last_sync and null last_error, but not the
\* default record, was saved over a file that could not be parsed and loaded.
C21_NullFieldsReloaded ==
    /\ store.saved # None
    /\ store.loaded # None
    /\ store.saved[1].last_sync = None
    /\ store.saved[1].last_error = None
    /\ store.saved[1].error_count = max_retries
    /\ Len(store.saved[1].last_issues) = MaxIssues

\* C22: a load over a state file that is absent, that cannot be read or
\* reached, or that holds no whole document returns the default record (it
\* raises nothing).
C22_LoadFallsBackToDefault ==
    (store.loaded # None /\ disk.kind # "doc")
    => store.loaded = Some(DefaultState)

\* C23: the step that starts the service registers the one-shot job exactly
\* if the record is due at that moment, and always the daily job: from then
\* on the daily job becomes due exactly when an hour begins that is the
\* notification hour (minute 0 of it), and at no other moment.
C23_StartRegistersJobs ==
    [][/\ (~started /\ started') => (dateJob' <=> IsDue)
       /\ (started /\ now' # now)
            => (cronDue' <=> now'.time = notification_hour)
       /\ (cronDue' /\ ~cronDue)
            => (started /\ now' # now /\ now'.time = notification_hour)
       /\ (dateJob' /\ ~dateJob) => (~started /\ started')]_vars

\* C23 witness: the service was started when the record was not due, no
\* one-shot job was registered and no sync has begun; the notification hour
\* has now begun and the daily job is due.
C23_OnlyDailyJobRegistered ==
    /\ started
    /\ decision = Some(FALSE)
    /\ ~dateJob
    /\ begun = {}
    /\ cronDue
    /\ now.time = notification_hour

\* C24: at most one sync is in flight at any time (the daily job and the
\* one-shot job never run sync together), and no sync's close of the client's
\* session completes while another sync is suspended in one of its fetches.
C24_OneSyncInFlight ==
    [][/\ Cardinality({c \in Callers : Running(c)'}) <= 1
       /\ (session = "open" /\ session' = "none")
            => \A c \in Callers : att'[c].pc \notin {"get_states", "get_issues"}]_vars

\* C25: when the service stops, the daily job and a one-shot job that has
\* not fired are cancelled, and a sync in progress is not interrupted: a
\* running sync ends only by returning on its own, after it recorded and
\* saved its outcome (or found no states).
C25_StopLetsSyncFinish ==
    [][/\ (started /\ ~started') => (~cronDue' /\ ~dateJob')
       /\ \A c \in Callers :
            (Running(c) /\ ~Running(c)')
            => /\ last'.pc = "done"
               /\ last'.by = c
               /\ Saved(last') \/ last'.states = Some(<<>>)]_vars

\* C26: once the service is started, on every later day a sync is eventually
\* started by the daily job when the notification hour begins, whatever the
\* record says about earlier syncs.
C26_DailySyncEveryDay ==
    \A d \in 2 .. MaxDay :
        (started /\ now.date < d)
        ~> /\ att["daily"].pc = "get_states"
           /\ ~att["daily"].ticked
           /\ now = [date |-> d, time |-> notification_hour]

\* C26 witness: on the last day the daily job has just started a sync at the
\* notification hour, after the syncs of the service failed up to the ceiling
\* of error_count.
C26_DailySyncAfterFailures ==
    /\ started
    /\ fromDefault
    /\ state.error_count = max_retries
    /\ att["daily"].pc = "get_states"
    /\ ~att["daily"].ticked
    /\ now = [date |-> MaxDay, time |-> notification_hour]

\* the record r is a success without counter and message, or an error with a
\* counter of at least one and a message
Coherent(r) ==
    /\ (r.last_sync_status = "success") <=> (r.error_count = 0)
    /\ (r.error_count = 0) <=> (r.last_error = None)

\* C27: in every record the service reaches from the default record,
\* last_sync_status = "success", error_count = 0 and last_error = null hold
\* together or not at all; and the same is true of the record a successful
\* sync would leave next.
C27_StatusCounterErrorAgree ==
    fromDefault
    => /\ Coherent(state)
       /\ Coherent(update_state(state, TRUE, "", <<>>, now, max_retries))

\* C27 witness: from the default record, a sync failed with an error whose
\* text is empty: the record is an error, counted, with a non-null message.
C27_FailedWithoutText ==
    /\ fromDefault
    /\ last.pc = "done"
    /\ last.raised # None
    /\ last.raised[1].msg = ""
    /\ state.last_sync_status = "error"
    /\ state.error_count = 1
    /\ state.last_error = Some("")

\* C28: after a failed sync the record has a last_sync; while the clock stays
\* on the day of a failure that happened at or after the notification hour,
\* the record is not due, whatever the error counter says.
C28_FailureCountsForTheDay ==
    nFailed >= 1
    => /\ state.last_sync_status = "error"
       /\ state.last_sync # None
       /\ (LastSync.date = now.date /\ LastSync.time >= notification_hour)
            => ~IsDue

\* C28 witness: the syncs failed up to the ceiling, the last one at the
\* notification hour or later; a later hour of the same day has begun.
C28_LaterHourAfterFailure ==
    /\ nFailed >= 1
    /\ state.last_sync # None
    /\ state.error_count = max_retries
    /\ LastSync.date = now.date
    /\ LastSync.time >= notification_hour
    /\ now.time > LastSync.time

\* a call of close completes in this step: on the client alone, or as the
\* end of a sync's finally clause
CloseCompletes ==
    \/ clientCalls' # clientCalls /\ clientCalls'[Len(clientCalls')] = "close"
    \/ \E c \in Callers : att[c].pc = "close" /\ att'[c].pc = "idle"

\* C29: over any sequence of fetches and closes the client never has more
\* than one session open, and it holds the one that is open; a session is
\* created only by a step that found none held; a close that completes
\* leaves no session held and none open, and without a session it changes
\* nothing; and when a sync returns no session is held.
C29_AtMostOneSession ==
    [][/\ opened' \in {0, 1}
       /\ (opened' = 1) <=> (session' = "open")
       /\ (opened' > opened) => (session = "none" /\ opened' = opened + 1)
       /\ CloseCompletes => (session' = "none" /\ opened' = 0)
       /\ (CloseCompletes /\ session = "none") => UNCHANGED <<session, opened>>
       /\ (\E c \in Callers : Running(c) /\ ~Running(c)')
            => session' = "none"]_vars

\* C29 witness: after a fetch, a close, a second close and another fetch the
\* client holds one session, the second it created.
C29_SessionReopened ==
    /\ Len(clientCalls) = 4
    /\ clientCalls[1] \in Fetches
    /\ clientCalls[2] = "close"
    /\ clientCalls[3] = "close"
    /\ clientCalls[4] = "get_issue"
    /\ session = "open"
    /\ opened = 1

\* a new process has taken the place of the one that ran a sync
Restarted == last # IdleAttempt /\ last' = IdleAttempt

\* C30: a step of a sync in which the write of the state file fails leaves
\* the file with its previous content, keeps the update in the record in
\* memory (stamped with the current instant), and lets the sync go on to its
\* finally clause and return; so the record in memory then differs from the
\* stored one, unless that one was written within the same hour of the clock.
\* A process run again holds the record the file gives, not the one that was
\* in memory.
C30_WriteFailureSwallowed ==
    [][/\ (nWriteErrors' = nWriteErrors + 1)
            => /\ disk' = disk
               /\ state'.last_sync = isoformat(now)
               /\ state'.last_sync_status = "error"
               /\ load_state(disk).last_sync # isoformat(now)
                    => load_state(disk') # state'
               /\ \E c \in Callers :
                    /\ SyncStep(c)
                    /\ After(c).pc \in {"close", "done"}
                    /\ Saved(After(c))
       /\ Restarted => state' = load_state(disk')]_vars
====
